---------------------------- MODULE Spec2Model ----------------------------
(* A model of the batch ETL pipeline of src/data_processor.py:               *)
(* DataProcessingPipeline.run_pipeline and the DataProcessor and             *)
(* DatabaseManager methods it calls, with the local download file, the       *)
(* remote source and the three tables of the relational store as state.      *)
EXTENDS Integers, Sequences, FiniteSets, TLC

(* ------------------------------ bounds --------------------------------- *)

\* Longest source file, in data rows.
MaxRows == 3
\* Largest batch size handed to insert_dataframe (Config.BATCH_SIZE scaled down).
MaxBatchSize == 2
\* Number of run_pipeline calls in one behaviour.
MaxRuns == 2

(* ----------------------------- constants ------------------------------- *)

\* Python's None, for start_time / end_time before they are assigned.
None == -1

AllTables == {"processed_data", "processing_log", "data_quality_metrics"}

\* A raw row is an opaque value; only equality of rows matters to the steps
\* modelled here.  Source contents are taken up to renaming of the values:
\* the first row is 1 and a row is at most one more than the largest before it.
RowValues == 1..MaxRows

RawTables == UNION {[1..n -> RowValues] : n \in 0..MaxRows}

IsCanonical(s) ==
    \A k \in 1..Len(s) :
        \/ s[k] = 1
        \/ \E j \in 1..(k - 1) : s[j] >= s[k] - 1 /\ s[k] > 1

RemoteContents == {s \in RawTables : IsCanonical(s)}

(* ------------------------------- state --------------------------------- *)

VARIABLES
    remote,               \* rows of the CSV behind Config.CSV_URL
    file,                 \* Config.DOWNLOAD_PATH: "absent", "partial", "complete"
    netCalls,             \* number of requests.get calls issued so far
    tables,               \* tables that exist in the relational store
    processed_data,       \* rows of the destination table, in insertion order
    processing_log,       \* rows of the audit table
    data_quality_metrics, \* rows of the quality-metrics table
    batch_size,           \* Config.BATCH_SIZE
    now,                  \* the clock read by datetime.now()
    nextUuid,             \* the next value uuid.uuid4() returns
    pipeline,             \* the DataProcessingPipeline object and its DataProcessor
    pc,                   \* position of control inside run_pipeline
    df,                   \* run_pipeline local: the raw table
    cleaned_df,           \* run_pipeline local: the cleaned table
    i,                    \* insert_dataframe local: loop offset
    total_inserted,       \* insert_dataframe local
    inserted_rows,        \* run_pipeline local: result of the store step
    error,                \* the exception being propagated, "none" if none
    outcome,              \* how the last run_pipeline call ended
    exit_code,            \* exit code of main() for the last run
    run,                  \* number of run_pipeline calls started
    steps,                \* history: steps entered by the current run, in order
    inserts,              \* history: batches handed to to_sql by the current load
    logCalls,             \* history: log_processing_status calls of the current run
    auditFailures,        \* history: audit writes of the current run that did not land
    loadsDone,            \* history: insert_dataframe calls that returned
    atStart               \* history: the tables as the current run found them

vars == <<remote, file, netCalls, tables, processed_data, processing_log,
          data_quality_metrics, batch_size, now, nextUuid, pipeline, pc, df,
          cleaned_df, i, total_inserted, inserted_rows, error, outcome,
          exit_code, run, steps, inserts, logCalls, auditFailures, loadsDone,
          atStart>>

envVars  == <<remote, batch_size>>
fileVars == <<file, netCalls>>
dbVars   == <<tables, processed_data, processing_log, data_quality_metrics>>
loadVars == <<i, total_inserted, inserts>>
histVars == <<loadsDone>>
runVars  == <<run, atStart>>
endVars  == <<outcome, exit_code>>
locals   == <<df, cleaned_df, inserted_rows>>
idVars   == <<now, nextUuid>>

(* ------------------------- pure functions ------------------------------ *)

Min(a, b) == IF a <= b THEN a ELSE b

\* DataFrame.drop_duplicates(): keep the first occurrence of every row.
\* drop_duplicates_discarded is the faulty variant whose result is thrown
\* away, so that the table keeps every row.
drop_duplicates_discarded(d) == d

RECURSIVE drop_duplicates(_)
drop_duplicates(d) ==
    IF d = <<>> THEN <<>>
    ELSE LET init == drop_duplicates(SubSeq(d, 1, Len(d) - 1))
             last == d[Len(d)]
         IN IF \E k \in 1..Len(init) : init[k] = last
            THEN init
            ELSE Append(init, last)

\* DataProcessor.clean_data: deduplicate, then stamp every row with the
\* processor's batch identifier.
clean_data(d, batch_id) ==
    LET u == drop_duplicates(d)
    IN [k \in 1..Len(u) |-> [val |-> u[k], processing_batch |-> batch_id]]

\* DataProcessor.validate_data, on the table it is given.
validate_data(d) ==
    [total_records     |-> Len(d),
     duplicate_records |-> Len(d) - Len(drop_duplicates(d))]

\* The slice df.iloc[i:i + batch_size] (i is 0-based).  BatchSliceShort is
\* the faulty variant that stops one row early.
BatchSliceShort(d, k, b) == SubSeq(d, k + 1, Min(k + b, Len(d)) - 1)

BatchSlice(d, k, b) == SubSeq(d, k + 1, Min(k + b, Len(d)))

\* DatabaseManager.log_processing_status: the audit table afterwards.  The
\* INSERT fails when the table does not exist or the write itself fails
\* (ioFail); the method catches the error and returns normally either way.
log_processing_status(total_rows, processed_rows, status, error_message, processing_time, ioFail) ==
    IF "processing_log" \in tables /\ ~ioFail
    THEN Append(processing_log,
                [total_rows              |-> total_rows,
                 processed_rows          |-> processed_rows,
                 status                  |-> status,
                 error_message           |-> error_message,
                 processing_time_seconds |-> processing_time])
    ELSE processing_log

\* DatabaseManager.log_data_quality_metrics: the metrics table afterwards.
log_data_quality_metrics(batch_id, metrics, ioFail) ==
    IF "data_quality_metrics" \in tables /\ ~ioFail
    THEN Append(data_quality_metrics,
                [batch_id          |-> batch_id,
                 total_records     |-> metrics.total_records,
                 duplicate_records |-> metrics.duplicate_records])
    ELSE data_quality_metrics

(* ------------------------------- Init ---------------------------------- *)

\* DataProcessingPipeline.__init__ with DataProcessor.__init__.
NewPipeline(uuid) ==
    [start_time     |-> None,
     end_time       |-> None,
     processed_rows |-> 0,
     total_rows     |-> 0,
     batch_id       |-> uuid]

Init ==
    /\ remote \in RemoteContents
    /\ batch_size \in 1..MaxBatchSize
    /\ file = "absent"
    /\ netCalls = 0
    /\ tables \in {{}, AllTables}
    /\ processed_data = <<>>
    /\ processing_log = <<>>
    /\ data_quality_metrics = <<>>
    /\ now = 0
    /\ nextUuid = 2
    /\ pipeline = NewPipeline(1)
    /\ pc = "idle"
    /\ df = <<>>
    /\ cleaned_df = <<>>
    /\ i = 0
    /\ total_inserted = 0
    /\ inserted_rows = 0
    /\ error = "none"
    /\ outcome = "none"
    /\ exit_code = None
    /\ run = 0
    /\ steps = <<>>
    /\ inserts = <<>>
    /\ logCalls = 0
    /\ auditFailures = 0
    /\ loadsDone = 0
    /\ atStart = [log |-> <<>>, data |-> <<>>, metrics |-> <<>>]


(* ------------------------------ actions -------------------------------- *)

\* main() of a new process: a new pipeline object with a fresh batch id.
Construct ==
    /\ pc = "idle"
    /\ pipeline.start_time # None
    /\ run < MaxRuns
    /\ pipeline' = NewPipeline(nextUuid)
    /\ nextUuid' = nextUuid + 1
    /\ UNCHANGED <<envVars, fileVars, dbVars, loadVars, histVars, runVars,
                   endVars, locals, now, pc, error, steps, logCalls,
                   auditFailures>>

\* run_pipeline is entered: start_time is taken from the clock.
Start ==
    /\ pc = "idle"
    /\ run < MaxRuns
    /\ run' = run + 1
    /\ pipeline' = [pipeline EXCEPT !.start_time = now]
    /\ now' = now + 1
    /\ pc' = "download"
    /\ df' = <<>>
    /\ cleaned_df' = <<>>
    /\ i' = 0
    /\ total_inserted' = 0
    /\ inserted_rows' = 0
    /\ error' = "none"
    /\ outcome' = "none"
    /\ exit_code' = None
    /\ steps' = <<>>
    /\ inserts' = <<>>
    /\ logCalls' = 0
    /\ auditFailures' = 0
    /\ atStart' = [log     |-> processing_log,
                   data    |-> processed_data,
                   metrics |-> data_quality_metrics]
    /\ UNCHANGED <<envVars, fileVars, dbVars, histVars, nextUuid>>

\* An exception leaves the try block of run_pipeline.  ThrowRetry is the
\* faulty variant that catches it where it was raised and runs the step again.
ThrowRetry(e) ==
    /\ error' = e
    /\ UNCHANGED pc

Throw(e) ==
    /\ error' = e
    /\ pc' = "except"

\* os.path.exists(Config.DOWNLOAD_PATH) in _download_file.  FileExistsNever
\* is the faulty variant that never finds the file.
FileExistsNever == FALSE

FileExists == file # "absent"

\* _download_file, with DataProcessor.download_file when the file is absent.
\* A failed transfer may have created the file already (open(..., 'wb')).
Download ==
    /\ pc = "download"
    /\ steps' = Append(steps, "fetch")
    /\ IF FileExists
       THEN /\ pc' = "read"
            /\ UNCHANGED <<fileVars, error>>
       ELSE /\ netCalls' = netCalls + 1
            /\ \/ /\ file' = "complete"
                  /\ pc' = "read"
                  /\ UNCHANGED error
               \/ /\ file' \in {file, "partial"}
                  /\ Throw("Failed to download CSV file")
    /\ UNCHANGED <<envVars, dbVars, loadVars, histVars, runVars, endVars,
                   locals, idVars, pipeline, logCalls, auditFailures>>

\* _read_and_process_data with DataProcessor.read_csv_in_chunks.  A partial
\* file does not parse; a file without data rows gives an empty table, with
\* total_rows set to 0 or left alone according to whether the parser yielded
\* an empty chunk or none.
Read ==
    /\ pc = "read"
    /\ steps' = Append(steps, "read")
    /\ \/ /\ Throw(IF file = "absent" THEN "Downloaded file not found"
                   ELSE "parse error")
          /\ UNCHANGED <<pipeline, df>>
       \/ /\ file = "complete"
          /\ remote = <<>>
          /\ \E t \in {0, pipeline.total_rows} :
                 pipeline' = [pipeline EXCEPT !.total_rows = t]
          /\ Throw("No data found in CSV file")
          /\ UNCHANGED df
       \/ /\ file = "complete"
          /\ remote # <<>>
          /\ pipeline' = [pipeline EXCEPT !.total_rows = Len(remote)]
          /\ df' = remote
          /\ pc' = "clean"
          /\ UNCHANGED error
    /\ UNCHANGED <<envVars, fileVars, dbVars, loadVars, histVars, runVars,
                   endVars, idVars, cleaned_df, inserted_rows, logCalls,
                   auditFailures>>

\* _clean_and_transform_data with DataProcessor.clean_data.
Clean ==
    /\ pc = "clean"
    /\ steps' = Append(steps, "clean")
    /\ \/ /\ Throw("clean error")
          /\ UNCHANGED <<pipeline, cleaned_df>>
       \/ /\ cleaned_df' = clean_data(df, pipeline.batch_id)
          /\ pipeline' = [pipeline EXCEPT
                             !.processed_rows = Len(cleaned_df')]
          /\ pc' = "validate"
          /\ UNCHANGED error
    /\ UNCHANGED <<envVars, fileVars, dbVars, loadVars, histVars, runVars,
                   endVars, idVars, df, inserted_rows, logCalls,
                   auditFailures>>

\* _validate_data_quality: DataProcessor.validate_data, then the metrics
\* are written to the quality-metrics table.
Validate ==
    /\ pc = "validate"
    /\ steps' = Append(steps, "validate")
    /\ \/ /\ Throw("validate error")
          /\ UNCHANGED <<data_quality_metrics, auditFailures>>
       \/ /\ \E ioFail \in BOOLEAN :
                 data_quality_metrics' =
                     log_data_quality_metrics(pipeline.batch_id,
                                              validate_data(cleaned_df),
                                              ioFail)
          /\ auditFailures' =
                 IF data_quality_metrics' = data_quality_metrics
                 THEN auditFailures + 1
                 ELSE auditFailures
          /\ pc' = "store"
          /\ UNCHANGED error
    /\ UNCHANGED <<envVars, fileVars, tables, processed_data, processing_log,
                   loadVars, histVars, runVars, endVars, locals, idVars,
                   pipeline, logCalls>>

\* _store_data_in_database up to the call of insert_dataframe: the tables
\* are created when processed_data does not exist.
StoreBegin ==
    /\ pc = "store"
    /\ steps' = Append(steps, "store")
    /\ IF "processed_data" \in tables
       THEN /\ pc' = "insert"
            /\ UNCHANGED <<tables, error>>
       ELSE \/ /\ tables' = AllTables
               /\ pc' = "insert"
               /\ UNCHANGED error
            \/ /\ UNCHANGED tables
               /\ Throw("store error")
    /\ i' = 0
    /\ total_inserted' = 0
    /\ inserts' = <<>>
    /\ UNCHANGED <<envVars, fileVars, processed_data, processing_log,
                   data_quality_metrics, histVars, runVars, endVars, locals,
                   idVars, pipeline, logCalls, auditFailures>>

\* What to_sql(if_exists='append') makes of the table.  ToSqlReplace is the
\* faulty variant if_exists='replace'.
ToSqlReplace(table, batch) == batch

ToSqlAppend(table, batch) == table \o batch

\* A to_sql call of insert_dataframe raises: the error is logged and raised
\* again, and the table keeps what the earlier calls committed.
\* InsertFailsRollback is the faulty variant that takes the rows of this load
\* back.
InsertFailsRollback(batch_df) ==
    /\ inserts' = Append(inserts, [rows |-> batch_df, ok |-> FALSE])
    /\ Throw("store error")
    /\ processed_data' = atStart.data
    /\ UNCHANGED <<total_inserted, i, loadsDone>>

InsertFails(batch_df) ==
    /\ inserts' = Append(inserts, [rows |-> batch_df, ok |-> FALSE])
    /\ Throw("store error")
    /\ UNCHANGED <<processed_data, total_inserted, i, loadsDone>>

\* One iteration of the loop of insert_dataframe: one to_sql call, which
\* commits its batch or raises.
InsertBatch ==
    /\ pc = "insert"
    /\ i < Len(cleaned_df)
    /\ LET batch_df == BatchSlice(cleaned_df, i, batch_size)
       IN \/ /\ processed_data' = ToSqlAppend(processed_data, batch_df)
             /\ total_inserted' = total_inserted + Len(batch_df)
             /\ i' = i + batch_size
             /\ inserts' = Append(inserts, [rows |-> batch_df, ok |-> TRUE])
             /\ UNCHANGED <<pc, error, histVars>>
          \/ InsertFails(batch_df)
    /\ UNCHANGED <<envVars, fileVars, tables, processing_log,
                   data_quality_metrics, runVars, endVars, locals, idVars,
                   pipeline, steps, logCalls, auditFailures>>

\* The loop of insert_dataframe ends: total_inserted is returned.
InsertDone ==
    /\ pc = "insert"
    /\ i >= Len(cleaned_df)
    /\ inserted_rows' = total_inserted
    /\ loadsDone' = loadsDone + 1
    /\ pc' = "log_results"
    /\ UNCHANGED <<envVars, fileVars, dbVars, loadVars, runVars, endVars, idVars, pipeline, df, cleaned_df, error,
                   steps, logCalls, auditFailures>>

\* _log_processing_results: self.end_time - self.start_time is evaluated
\* before this run assigns end_time; with end_time None it raises TypeError.
LogResults ==
    /\ pc = "log_results"
    /\ steps' = Append(steps, "record-success")
    /\ IF pipeline.end_time = None
       THEN /\ Throw("TypeError")
            /\ UNCHANGED <<processing_log, logCalls, auditFailures>>
       ELSE /\ \E ioFail \in BOOLEAN :
                   processing_log' =
                       log_processing_status(
                           pipeline.total_rows, inserted_rows, "completed",
                           "none", pipeline.end_time - pipeline.start_time,
                           ioFail)
            /\ logCalls' = logCalls + 1
            /\ auditFailures' =
                   IF processing_log' = processing_log
                   THEN auditFailures + 1
                   ELSE auditFailures
            /\ pc' = "finish"
            /\ UNCHANGED error
    /\ UNCHANGED <<envVars, fileVars, tables, processed_data,
                   data_quality_metrics, loadVars, histVars, runVars, endVars,
                   locals, idVars, pipeline>>

\* The end of the try block: end_time, the summary, return; main exits 0.
Finish ==
    /\ pc = "finish"
    /\ pipeline' = [pipeline EXCEPT !.end_time = now]
    /\ now' = now + 1
    /\ outcome' = "returned"
    /\ exit_code' = 0
    /\ pc' = "idle"
    /\ UNCHANGED <<envVars, fileVars, dbVars, loadVars, histVars, runVars,
                   locals, nextUuid, error, steps, logCalls, auditFailures>>

\* The except block up to and including _log_error, which swallows whatever
\* the audit write raises.
LogError ==
    /\ pc = "except"
    /\ pipeline' = [pipeline EXCEPT !.end_time = now]
    /\ now' = now + 1
    /\ \E ioFail \in BOOLEAN :
           processing_log' =
               log_processing_status(
                   pipeline.total_rows, pipeline.processed_rows, "failed",
                   error, now - pipeline.start_time, ioFail)
    /\ logCalls' = logCalls + 1
    /\ auditFailures' =
           IF processing_log' = processing_log
           THEN auditFailures + 1
           ELSE auditFailures
    /\ steps' = Append(steps, "record-failure")
    /\ pc' = "raise"
    /\ UNCHANGED <<envVars, fileVars, tables, processed_data,
                   data_quality_metrics, loadVars, histVars, runVars, endVars,
                   locals, nextUuid, error>>

\* The bare raise of the except block: the caught exception reaches the
\* caller; main exits 1.
Reraise ==
    /\ pc = "raise"
    /\ outcome' = error
    /\ exit_code' = 1
    /\ pc' = "idle"
    /\ UNCHANGED <<envVars, fileVars, dbVars, loadVars, histVars, runVars,
                   locals, idVars, pipeline, error, steps, logCalls,
                   auditFailures>>

Next ==
    \/ Construct
    \/ Start
    \/ Download
    \/ Read
    \/ Clean
    \/ Validate
    \/ StoreBegin
    \/ InsertBatch
    \/ InsertDone
    \/ LogResults
    \/ Finish
    \/ LogError
    \/ Reraise

Spec == Init /\ [][Next]_vars

(* -------------------- the cleaning steps, cell by cell ------------------ *)
(* A second specification follows DataProcessor.clean_data and              *)
(* validate_data statement by statement on tables of cells.  The source     *)
(* file has two columns, a and b; a cell of the file is a text, empty for a *)
(* missing value.  Numbers are even so that every median is an integer.     *)

Columns == {"a", "b"}

FileTexts(c) == IF c = "a" THEN {"", "2", "4"} ELSE {"", "x", "6"}

FileRows == {r \in [Columns -> {"", "2", "4", "x", "6"}] :
                \A c \in Columns : r[c] \in FileTexts(c)}

CsvFiles == UNION {[1..n -> FileRows] : n \in 1..MaxRows}

\* The cells of a DataFrame: a missing value, a number, a text.
NaN == [kind |-> "nan", n |-> 0, s |-> ""]

Num(x) == [kind |-> "num", n |-> x, s |-> ""]

Str(t) == [kind |-> "str", n |-> 0, s |-> t]

IsNumericText(t) == t \in {"2", "4", "6"}

NumberOf(t) == CASE t = "2" -> 2 [] t = "4" -> 4 [] t = "6" -> 6

\* The order of texts in a sort (digits, upper case, lower case).
SortRank(t) ==
    CASE t = "2" -> 1 [] t = "4" -> 2 [] t = "6" -> 3
      [] t = "Unknown" -> 4 [] t = "x" -> 5

\* pd.read_csv: an empty field is missing; a column whose other fields all
\* parse as numbers is numeric, any other column keeps its texts.
read_csv(f) ==
    [k \in 1..Len(f) |->
        [c \in Columns |->
            IF f[k][c] = "" THEN NaN
            ELSE IF \A j \in 1..Len(f) :
                        f[j][c] = "" \/ IsNumericText(f[j][c])
                 THEN Num(NumberOf(f[k][c]))
                 ELSE Str(f[k][c])]]

\* df[column].dtype in ['int64', 'float64']: the column holds no text (a
\* column of missing values only is float64).
IsNumericDtype(d, c) == \A k \in 1..Len(d) : d[k][c].kind # "str"

\* df[column].dtype == 'object'.
IsObjectDtype(d, c) == ~IsNumericDtype(d, c)

\* Series.median(): the middle of the sorted non-missing values, the mean
\* of the two middle ones for an even count, NaN when there is none.
Median(d, c) ==
    LET idx    == {k \in 1..Len(d) : d[k][c].kind = "num"}
        m      == Cardinality(idx)
        Kth(j) == CHOOSE v \in {d[k][c].n : k \in idx} :
                      /\ Cardinality({k \in idx : d[k][c].n < v}) < j
                      /\ j <= Cardinality({k \in idx : d[k][c].n <= v})
    IN IF m = 0 THEN NaN
       ELSE IF m % 2 = 1 THEN Num(Kth((m + 1) \div 2))
       ELSE Num((Kth(m \div 2) + Kth(m \div 2 + 1)) \div 2)

\* Series.mode(): the most frequent non-missing values, sorted; empty when
\* there is none.
Mode(d, c) ==
    LET texts    == {d[k][c].s : k \in {j \in 1..Len(d) : d[j][c].kind = "str"}}
        Count(t) == Cardinality({k \in 1..Len(d) : d[k][c] = Str(t)})
    IN {t \in texts : \A u \in texts : Count(u) <= Count(t)}

\* mode_value.iloc[0].
First(ts) == CHOOSE t \in ts : \A u \in ts : SortRank(t) <= SortRank(u)

\* Series.fillna(v).
fillna(cell, v) == IF cell.kind = "nan" THEN v ELSE cell

\* DataProcessor._handle_missing_values.
handle_missing_values(d) ==
    [k \in 1..Len(d) |->
        [c \in Columns |->
            IF IsNumericDtype(d, c)
            THEN fillna(d[k][c], Median(d, c))
            ELSE IF Mode(d, c) # {}
                 THEN fillna(d[k][c], Str(First(Mode(d, c))))
                 ELSE fillna(d[k][c], Str("Unknown"))]]

\* pd.to_numeric(errors='coerce') of one cell.
to_numeric(cell) ==
    IF cell.kind = "str"
    THEN IF IsNumericText(cell.s) THEN Num(NumberOf(cell.s)) ELSE NaN
    ELSE cell

\* DataProcessor._convert_data_types: a text column takes its converted
\* values unless they are all missing; the downcasts of numeric columns keep
\* every value of this model.
convert_data_types(d) ==
    [k \in 1..Len(d) |->
        [c \in Columns |->
            IF /\ IsObjectDtype(d, c)
               /\ ~(\A j \in 1..Len(d) : to_numeric(d[j][c]).kind = "nan")
            THEN to_numeric(d[k][c])
            ELSE d[k][c]]]

\* DataProcessor.validate_data on a table of cells.
quality_metrics(d) ==
    LET IsNull(k, c) == d[k][c].kind = "nan"
    IN [total_records     |-> Len(d),
        valid_records     |->
            Cardinality({k \in 1..Len(d) : \A c \in Columns : ~IsNull(k, c)}),
        null_records      |->
            Cardinality({kc \in (1..Len(d)) \X Columns : IsNull(kc[1], kc[2])}),
        duplicate_records |-> Len(d) - Len(drop_duplicates(d))]

\* The variables the cleaning steps leave alone.
cleanFrame == <<envVars, fileVars, tables, processed_data, processing_log,
                loadVars, histVars, runVars, endVars, inserted_rows, nextUuid,
                error, steps, logCalls, auditFailures>>

InitClean ==
    /\ remote \in CsvFiles
    /\ batch_size = 1
    /\ file = "complete"
    /\ netCalls = 0
    /\ tables = AllTables
    /\ processed_data = <<>>
    /\ processing_log = <<>>
    /\ data_quality_metrics = <<>>
    /\ now = 0
    /\ nextUuid = 2
    /\ pipeline = NewPipeline(1)
    /\ pc = "c_start"
    /\ df = <<>>
    /\ cleaned_df = <<>>
    /\ i = 0
    /\ total_inserted = 0
    /\ inserted_rows = 0
    /\ error = "none"
    /\ outcome = "none"
    /\ exit_code = None
    /\ run = 0
    /\ steps = <<>>
    /\ inserts = <<>>
    /\ logCalls = 0
    /\ auditFailures = 0
    /\ loadsDone = 0
    /\ atStart = [log |-> <<>>, data |-> <<>>, metrics |-> <<>>]

\* datetime.now(): the clock has advanced since it was last read, or has not.
ClockReads == {now, now + 1}

\* run_pipeline is entered: start_time is read from the clock.
CleanStart ==
    /\ pc = "c_start"
    /\ \E t \in ClockReads :
           /\ now' = t
           /\ pipeline' = [pipeline EXCEPT !.start_time = t]
    /\ pc' = "c_read"
    /\ UNCHANGED <<cleanFrame, df, cleaned_df, data_quality_metrics>>

\* read_csv_in_chunks: the file is parsed into one table.
ReadCsv ==
    /\ pc = "c_read"
    /\ df' = read_csv(remote)
    /\ pipeline' = [pipeline EXCEPT !.total_rows = Len(df')]
    /\ pc' = "c_dedup"
    /\ UNCHANGED <<cleanFrame, now, cleaned_df, data_quality_metrics>>

\* clean_data: df.copy() and _remove_duplicates.
RemoveDuplicates ==
    /\ pc = "c_dedup"
    /\ cleaned_df' = drop_duplicates(df)
    /\ pc' = "c_impute"
    /\ UNCHANGED <<cleanFrame, now, pipeline, df, data_quality_metrics>>

\* clean_data: _handle_missing_values.
HandleMissingValues ==
    /\ pc = "c_impute"
    /\ cleaned_df' = handle_missing_values(cleaned_df)
    /\ pc' = "c_convert"
    /\ UNCHANGED <<cleanFrame, now, pipeline, df, data_quality_metrics>>

\* clean_data: _convert_data_types.
ConvertDataTypes ==
    /\ pc = "c_convert"
    /\ cleaned_df' = convert_data_types(cleaned_df)
    /\ pc' = "c_stamp"
    /\ UNCHANGED <<cleanFrame, now, pipeline, df, data_quality_metrics>>

\* clean_data: source_file, processing_batch and created_at are set on
\* every row; created_at is one reading of the clock.
StampCreated ==
    /\ pc = "c_stamp"
    /\ \E t \in ClockReads :
           /\ now' = t
           /\ cleaned_df' =
                  [k \in 1..Len(cleaned_df) |->
                      cleaned_df[k] @@
                          [source_file      |-> "downloaded_data.csv.gz",
                           processing_batch |-> pipeline.batch_id,
                           created_at       |-> t]]
    /\ pc' = "c_stamp_updated"
    /\ UNCHANGED <<cleanFrame, pipeline, df, data_quality_metrics>>

\* clean_data: updated_at is a second reading of the clock; processed_rows
\* is set and the table returned.
StampUpdated ==
    /\ pc = "c_stamp_updated"
    /\ \E t \in ClockReads :
           /\ now' = t
           /\ cleaned_df' =
                  [k \in 1..Len(cleaned_df) |->
                      cleaned_df[k] @@ [updated_at |-> t]]
    /\ pipeline' = [pipeline EXCEPT !.processed_rows = Len(cleaned_df)]
    /\ pc' = "c_validate"
    /\ UNCHANGED <<cleanFrame, df, data_quality_metrics>>

\* _validate_data_quality: validate_data on the cleaned table, then the
\* snapshot is written to the quality-metrics table (the write may fail and
\* is then skipped).
ValidateData ==
    /\ pc = "c_validate"
    /\ \E ioFail \in BOOLEAN :
           data_quality_metrics' =
               IF ioFail THEN data_quality_metrics
               ELSE Append(data_quality_metrics,
                           [batch_id |-> pipeline.batch_id]
                               @@ quality_metrics(cleaned_df))
    /\ pc' = "c_done"
    /\ UNCHANGED <<cleanFrame, now, pipeline, df, cleaned_df>>

NextClean ==
    \/ CleanStart
    \/ ReadCsv
    \/ RemoveDuplicates
    \/ HandleMissingValues
    \/ ConvertDataTypes
    \/ StampCreated
    \/ StampUpdated
    \/ ValidateData

SpecClean == InitClean /\ [][NextClean]_vars

(* ------------------------- claim vocabulary ---------------------------- *)

Order == <<"fetch", "read", "clean", "validate", "store", "record-success">>

IsPrefix(a, b) ==
    /\ Len(a) <= Len(b)
    /\ \A k \in 1..Len(a) : a[k] = b[k]

\* The steps of a run without the closing record-failure.
Body(st) ==
    IF st # <<>> /\ st[Len(st)] = "record-failure"
    THEN SubSeq(st, 1, Len(st) - 1)
    ELSE st

\* The errors each step raises.
ErrorsOf(step) ==
    CASE step = "fetch"          -> {"Failed to download CSV file"}
      [] step = "read"           -> {"Downloaded file not found", "parse error",
                                     "No data found in CSV file"}
      [] step = "clean"          -> {"clean error"}
      [] step = "validate"       -> {"validate error"}
      [] step = "store"          -> {"store error"}
      [] step = "record-success" -> {"TypeError"}
      [] OTHER                   -> {}

\* The step a failed run was in when the exception was raised.
FailedStep(st) == Body(st)[Len(Body(st))]

\* fetch, read, clean, validate and store have all returned in this run.
AllStepsSucceeded == Len(steps) >= 6 /\ steps[6] = "record-success"

\* validate has returned in this run.
ValidateCompleted == Len(steps) >= 5 /\ steps[5] = "store"

\* The entries this run has added to the audit table.
NewLogEntries ==
    SubSeq(processing_log, Len(atStart.log) + 1, Len(processing_log))

RECURSIVE Concat(_)
Concat(ss) ==
    IF ss = <<>> THEN <<>> ELSE ss[1] \o Concat(SubSeq(ss, 2, Len(ss)))

RECURSIVE Repeat(_, _)
Repeat(s, n) == IF n = 0 THEN <<>> ELSE s \o Repeat(s, n - 1)

Vals(rows) == [k \in 1..Len(rows) |-> rows[k].val]

RunEnded == pc = "idle" /\ run > 0

(* ------------------------------- claims -------------------------------- *)

\* C1: a run in which fetch, read, clean, validate and store all succeed
\* reaches record-success: a 'completed' entry is appended to the audit
\* table, run_pipeline returns and the CLI exits with code 0.
C1_SuccessIsRecorded ==
    (RunEnded /\ AllStepsSucceeded) =>
        /\ outcome = "returned"
        /\ exit_code = 0
        /\ Len(NewLogEntries) = 1
        /\ NewLogEntries[1].status = "completed"

\* C2: every run, whichever step it fails at and whatever tables the store
\* had, ends with exactly one entry appended to the audit table, with status
\* 'completed' or 'failed' and an elapsed time.
C2_ExactlyOneLogEntry ==
    RunEnded =>
        /\ IsPrefix(atStart.log, processing_log)
        /\ Len(NewLogEntries) = 1
        /\ NewLogEntries[1].status \in {"completed", "failed"}
        /\ NewLogEntries[1].processing_time_seconds # None

\* C3: when fetch, read, clean, validate or store fails, no later step of
\* the run is executed, no step is executed twice, and the error of the
\* failed step is re-raised to the caller only after the one attempt to
\* record the failed status.
C3_AbortNoRetryThenReraise ==
    [][/\ IsPrefix(Body(steps'), Order)
       /\ (error # "none" /\ run' = run) =>
              steps' \in {steps, Append(steps, "record-failure")}
       /\ (outcome' # outcome /\ outcome' \notin {"none", "returned"}) =>
              /\ logCalls = 1
              /\ steps # <<>>
              /\ steps[Len(steps)] = "record-failure"
              /\ outcome' = error
              /\ outcome' \in ErrorsOf(FailedStep(steps))]_vars

C3_Witness ==
    /\ pc = "idle"
    /\ outcome = "validate error"
    /\ steps = <<"fetch", "read", "clean", "validate", "record-failure">>

\* C4: every run that completes the validate step leaves exactly one row in
\* the quality-metrics table carrying the run's batch identifier, whatever
\* tables the store had when the run started.
C4_OneMetricsRowPerRun ==
    ValidateCompleted =>
        Cardinality({k \in 1..Len(data_quality_metrics) :
                        data_quality_metrics[k].batch_id =
                            cleaned_df[1].processing_batch}) = 1

\* C5: a load of n rows with batch size b that returns has issued exactly
\* ceil(n/b) inserts, in row order, each of b rows except possibly the last,
\* every row once, and reports n.
C5_BatchedInsert ==
    pc = "log_results" =>
        LET n == Len(cleaned_df)
            m == Len(inserts)
        IN /\ m = (n + batch_size - 1) \div batch_size
           /\ \A k \in 1..m :
                  /\ inserts[k].ok
                  /\ Len(inserts[k].rows) =
                         IF k < m THEN batch_size
                         ELSE n - batch_size * (m - 1)
                  /\ Len(inserts[k].rows) \in 1..batch_size
           /\ Concat([k \in 1..m |-> inserts[k].rows]) = cleaned_df
           /\ processed_data = atStart.data \o cleaned_df
           /\ inserted_rows = n

C5_Witness ==
    /\ pc = "log_results"
    /\ batch_size = 2
    /\ Len(cleaned_df) = 3
    /\ Len(inserts) = 2
    /\ Len(inserts[2].rows) = 1

\* C6: when the k-th batch insert of a load fails, the rows of batches
\* 1..k-1 stay in the destination table, no further batch is attempted, and
\* the error reaches the orchestrator, which ends the run as failed.
C6_PartialLoadStays ==
    (inserts # <<>> /\ ~inserts[Len(inserts)].ok) =>
        LET k == Len(inserts)
        IN /\ \A j \in 1..(k - 1) : inserts[j].ok
           /\ processed_data =
                  atStart.data \o
                      SubSeq(cleaned_df, 1, (k - 1) * batch_size)
           /\ error = "store error"
           /\ pc \in {"except", "raise", "idle"}
           /\ \A e \in 1..Len(NewLogEntries) :
                  NewLogEntries[e].status = "failed"
           /\ pc = "idle" => outcome = "store error" /\ exit_code = 1

C6_Witness ==
    /\ pc = "idle"
    /\ Len(inserts) = 2
    /\ ~inserts[2].ok
    /\ Len(processed_data) > Len(atStart.data)

\* C7: the destination table is append-only: no step removes or changes a
\* persisted row, and when every run so far has completed its load of the
\* same cached file the table holds the cleaned rows once per run (twice
\* after two runs).
C7_AppendOnly ==
    [][/\ IsPrefix(processed_data, processed_data')
       /\ (pc' = "idle" /\ loadsDone' = run') =>
              Vals(processed_data') =
                  Repeat(drop_duplicates(remote), run')]_vars

C7_Witness ==
    /\ pc = "idle"
    /\ run = 2
    /\ loadsDone = 2
    /\ netCalls = 1
    /\ Len(processed_data) = 2 * Len(drop_duplicates(remote))
    /\ Len(processed_data) >= 4

\* C8: when the fetch step finds the destination path present, it issues no
\* network call, leaves the file as it is and goes on as a success.
C8_FetchSkipsExistingFile ==
    [][(pc = "download" /\ file # "absent") =>
           /\ netCalls' = netCalls
           /\ file' = file
           /\ pc' = "read"
           /\ error' = "none"]_vars

C8_Witness ==
    /\ run = 2
    /\ pc = "read"
    /\ netCalls = 1

\* C9: a failed audit write never changes the outcome of the run: a run
\* whose steps all succeeded still returns, a run whose step failed still
\* re-raises that step's error, and no second log entry is written.
C9_AuditFailureHarmless ==
    (RunEnded /\ auditFailures > 0) =>
        /\ AllStepsSucceeded => outcome = "returned"
        /\ ~AllStepsSucceeded => outcome \in ErrorsOf(FailedStep(steps))
        /\ Len(NewLogEntries) <= 1

\* C10: in every audit entry the processed-rows field is the number of rows
\* the run persisted in the destination table.
C10_ProcessedRowsArePersistedRows ==
    RunEnded =>
        \A e \in 1..Len(NewLogEntries) :
            NewLogEntries[e].processed_rows =
                Len(processed_data) - Len(atStart.data)

\* The rows this run has added to the destination table, and the snapshots
\* it has added to the quality-metrics table.
NewRows ==
    SubSeq(processed_data, Len(atStart.data) + 1, Len(processed_data))

NewMetrics ==
    SubSeq(data_quality_metrics, Len(atStart.metrics) + 1,
           Len(data_quality_metrics))

\* C15: the batch identifier is assigned once per run: the rows and the
\* Quality Metrics snapshot of one run carry one identifier, and no earlier
\* run carried it, also when run_pipeline is called again on the same object.
C15_BatchIdOncePerRun ==
    /\ \A r \in 1..Len(NewRows) : \A m \in 1..Len(NewMetrics) :
           NewRows[r].processing_batch = NewMetrics[m].batch_id
    /\ \A r \in 1..Len(NewRows) :
           /\ NewRows[r].processing_batch = NewRows[1].processing_batch
           /\ \A o \in 1..Len(atStart.data) :
                  atStart.data[o].processing_batch
                      # NewRows[r].processing_batch
    /\ \A m \in 1..Len(NewMetrics) : \A o \in 1..Len(atStart.metrics) :
           atStart.metrics[o].batch_id # NewMetrics[m].batch_id

(* ------------------- claims about the cleaning steps -------------------- *)

\* The cells of the source columns of a table, without provenance columns.
Cells(t) == [k \in 1..Len(t) |-> [c \in Columns |-> t[k][c]]]

NoTwoEqualRows(t) ==
    \A j, k \in 1..Len(t) : j # k => t[j] # t[k]

Cleaned == pc \in {"c_validate", "c_done"}

\* C11: the duplicate_records value of a run's Quality Metrics snapshot is
\* the number of rows deduplication removed in that run: the raw row count
\* minus the row count after deduplication.
C11_DuplicateRecordsIsDedupDelta ==
    pc = "c_done" =>
        \A m \in 1..Len(data_quality_metrics) :
            data_quality_metrics[m].duplicate_records =
                Len(df) - Len(drop_duplicates(df))

\* C12: after the imputation step no cell is missing: a missing cell of a
\* numeric column holds the column median, of any other column the most
\* frequent value, and of a column without any value the text "Unknown".
C12_ImputationFillsEveryCell ==
    pc = "c_convert" =>
        LET before == drop_duplicates(df)
        IN \A k \in 1..Len(cleaned_df) : \A c \in Columns :
               /\ cleaned_df[k][c].kind # "nan"
               /\ before[k][c].kind # "nan" =>
                      cleaned_df[k][c] = before[k][c]
               /\ before[k][c].kind = "nan" =>
                      cleaned_df[k][c] =
                          IF \A j \in 1..Len(before) :
                                 before[j][c].kind = "nan"
                          THEN Str("Unknown")
                          ELSE IF IsNumericDtype(before, c)
                               THEN Median(before, c)
                               ELSE Str(First(Mode(before, c)))

\* C13: type coercion leaves a text column with at least one non-numeric
\* value unchanged, and never turns a non-missing cell into a missing one.
C13_CoercionKeepsValues ==
    [][pc = "c_convert" =>
           \A c \in Columns :
               /\ (\E k \in 1..Len(cleaned_df) :
                       /\ cleaned_df[k][c].kind = "str"
                       /\ ~IsNumericText(cleaned_df[k][c].s)) =>
                      \A k \in 1..Len(cleaned_df) :
                          cleaned_df'[k][c] = cleaned_df[k][c]
               /\ \A k \in 1..Len(cleaned_df) :
                      cleaned_df[k][c].kind # "nan" =>
                          cleaned_df'[k][c].kind # "nan"]_vars

\* C14: in every cleaned batch created_at and updated_at are equal to each
\* other and to the start time of the run, on every row, however the clock
\* advances between the start of the run and the stamping.
C14_TimestampsAreRunStart ==
    Cleaned =>
        \A k \in 1..Len(cleaned_df) :
            /\ cleaned_df[k].created_at = cleaned_df[k].updated_at
            /\ cleaned_df[k].created_at = pipeline.start_time
            /\ cleaned_df[k].created_at = cleaned_df[1].created_at

\* C16 as stated: the cleaned batch never holds two rows equal on all
\* columns, and the duplicate count validate_data computes on it is 0.
C16_CleanedBatchHasNoEqualRows ==
    Cleaned =>
        /\ NoTwoEqualRows(cleaned_df)
        /\ quality_metrics(cleaned_df).duplicate_records = 0

\* C16 as amended: the table holds no two equal rows right after
\* deduplication, and the cleaned batch holds none (duplicate count 0)
\* whenever imputation and type coercion have changed no cell.
C16_NoEqualRowsWhenCellsKept ==
    /\ pc = "c_impute" => NoTwoEqualRows(cleaned_df)
    /\ (Cleaned /\ Cells(cleaned_df) = drop_duplicates(df)) =>
           /\ NoTwoEqualRows(cleaned_df)
           /\ quality_metrics(cleaned_df).duplicate_records = 0
           /\ pc = "c_done" =>
                  \A m \in 1..Len(data_quality_metrics) :
                      data_quality_metrics[m].duplicate_records = 0

C16_Witness ==
    /\ pc = "c_done"
    /\ Len(df) = 3
    /\ Len(cleaned_df) = 2
    /\ Cells(cleaned_df) = drop_duplicates(df)
    /\ Len(data_quality_metrics) = 1
    /\ data_quality_metrics[1].duplicate_records = 0

=============================================================================
